---- MODULE Spec2Model ----
(***************************************************************************)
(* Model of package reload (src/reload.go): Do arms an fsnotify watcher on *)
(* the directory of the running binary and on additional directories, and  *)
(* a goroutine turns its events into RestartExec / callback invocations;   *)
(* Exec closes the watcher and replaces the process image.                 *)
(*                                                                         *)
(* Paths are sequences of one-character strings, so that prefix tests,     *)
(* filepath.Dir, filepath.Abs and filepath.IsAbs are computed, not assumed.*)
(***************************************************************************)
EXTENDS Integers, Sequences, FiniteSets, TLC

(***************************************************************************)
(* Bounds of the model.                                                    *)
(***************************************************************************)
\* longest list of additional directories handed to Do
MaxAdditional == 2
\* number of change events the notification subsystem produces in a run
MaxEvents == 2
\* number of errors the notification subsystem reports in a run
MaxErrors == 1
\* longest os.Args[0] the Path Resolver is tried on
MaxArgLen == 3
\* number of calls of Do a program makes
MaxDoCalls == 2

(***************************************************************************)
(* The file system and the process environment the program runs in.        *)
(***************************************************************************)
Root      == <<"/">>
DirB      == <<"/", "b">>
DirBB     == <<"/", "b", "b">>
DirM      == <<"/", "m">>
BinFile   == <<"/", "b", "b", "/", "s">>
RelB      == <<"b">>
RelBin    == <<"s">>

\* the working directory of the process
Cwd == Root
\* directories that exist
ExistingDirs == {Root, DirB, DirBB}
\* regular files that exist
ExistingFiles == {BinFile}
\* entries (file names) whose changes a watched directory reports
EntriesOf(d) == IF d = DirBB THEN {<<"s">>, <<"x">>} ELSE {<<"x">>}

\* what os.Executable() answers when it succeeds
OsExecutable == BinFile

\* os.Args[1:] and os.Environ() of the running process
TrailingArgs == <<"-v">>
Environ == <<"HOME=/">>

\* fsnotify.Op is a bit mask; an Op is the set of its bits
Ops == {{"Create"}, {"Write", "Chmod"}}

\* runtime.GOOS values of the three branches of the switch
Platforms == {"darwin", "linux", "windows"}
BSDFamily == {"darwin", "freebsd", "openbsd", "netbsd", "dragonfly"}

\* what a callback handed to Dir does: return, or call reload.Exec()
CallbackKinds == {"plain", "exec"}

\* Dir(path, cb), line 60
Dir(path, cb) == [path |-> path, cb |-> cb]

\* the lists of additional directories Do is called with: valid directories
\* (given absolute or relative to the working directory), a missing path and a
\* regular file, alone and in either order with a valid directory
AdditionalLists ==
    { <<>>,
      <<Dir(DirB, "plain")>>,
      <<Dir(DirB, "exec")>>,
      <<Dir(DirBB, "plain")>>,
      <<Dir(RelB, "plain")>>,
      <<Dir(DirM, "plain")>>,
      <<Dir(BinFile, "plain")>>,
      <<Dir(DirB, "plain"), Dir(DirBB, "plain")>>,
      <<Dir(DirB, "exec"), Dir(DirBB, "plain")>>,
      <<Dir(DirBB, "plain"), Dir(RelB, "exec")>>,
      <<Dir(DirB, "plain"), Dir(DirM, "plain")>>,
      <<Dir(BinFile, "plain"), Dir(DirB, "plain")>>,
      <<Dir(DirB, "plain"), Dir(DirBB, "plain"), Dir(DirB, "exec")>>,
      <<Dir(DirB, "plain"), Dir(DirBB, "plain"), Dir(DirM, "plain")>> }

AdditionalInputs == {s \in AdditionalLists : Len(s) <= MaxAdditional}

\* every os.Args[0] of up to MaxArgLen characters: absolute paths, relative
\* paths and bare names
ArgChars == {"/", "b", "s"}
ArgvInputs == UNION {[1..n -> ArgChars] : n \in 1..MaxArgLen}

(***************************************************************************)
(* path/filepath and strings, as far as the paths above exercise them.     *)
(***************************************************************************)
\* strings.HasPrefix with its arguments exchanged
HasPrefixSwapped(s, prefix) ==
    /\ Len(s) <= Len(prefix)
    /\ SubSeq(prefix, 1, Len(s)) = s

\* strings.HasPrefix(s, prefix)
HasPrefix(s, prefix) ==
    /\ Len(prefix) <= Len(s)
    /\ SubSeq(s, 1, Len(prefix)) = prefix

\* filepath.IsAbs on a Unix-like system
IsAbs(p) == Len(p) > 0 /\ p[1] = "/"

\* filepath.Clean: collapse runs of separators and drop a trailing one
RECURSIVE Squeeze(_)
Squeeze(p) ==
    IF Len(p) < 2 THEN p
    ELSE IF p[1] = "/" /\ p[2] = "/" THEN Squeeze(Tail(p))
    ELSE <<p[1]>> \o Squeeze(Tail(p))

Clean(p) ==
    LET q == Squeeze(p)
    IN  IF Len(q) > 1 /\ q[Len(q)] = "/" THEN SubSeq(q, 1, Len(q) - 1) ELSE q

\* filepath.Join(a, b)
Join(a, b) == Clean(a \o <<"/">> \o b)

\* index of the last separator of p, 0 when there is none
LastSlash(p) ==
    LET idx == {i \in 1..Len(p) : p[i] = "/"}
    IN  IF idx = {} THEN 0 ELSE CHOOSE i \in idx : \A j \in idx : j <= i

\* filepath.Dir(p)
DirOf(p) ==
    LET k == LastSlash(p)
    IN  IF k = 0 THEN <<".">>
        ELSE IF k = 1 THEN Root
        ELSE Clean(SubSeq(p, 1, k - 1))

\* filepath.Abs(p), given whether os.Getwd succeeds
Abs(p, cwdOK) ==
    IF IsAbs(p) THEN [path |-> Clean(p), err |-> FALSE]
    ELSE IF cwdOK THEN [path |-> Join(Cwd, p), err |-> FALSE]
    ELSE [path |-> <<>>, err |-> TRUE]

\* os.Stat(p) followed by IsDir()
Stat(p) ==
    IF p \in ExistingDirs THEN "dir"
    ELSE IF p \in ExistingFiles THEN "file"
    ELSE "missing"

(***************************************************************************)
(* State.                                                                  *)
(***************************************************************************)
VARIABLES
    \* the process and its inputs
    goos,           \* runtime.GOOS
    argv0,          \* os.Args[0]
    additional,     \* Do's variadic parameter; line 102 rewrites its paths
    proc,           \* "running", "replaced" (syscall.Exec succeeded) or "panicked"
    \* package variables
    binSelf,        \* "" is <<>>
    closeWatcher,   \* "nil" or "watcher.Close"
    \* the call of Do
    doPc, doErr, i, dirs, addIdx,
    \* the fsnotify watcher
    watcher,        \* "none", "open" or "closed"
    watched,        \* directories added with watcher.Add
    events,         \* watcher.Events: change events not yet received
    errorsPending,  \* watcher.Errors: errors not yet received
    \* the goroutine of lines 107-144
    loopPc, event, k,
    \* executions of Exec, by goroutine ("loop": through RestartExec or a callback; "ext": standalone)
    execPc,         \* "ext" starts at "idle", or at "never" in a program that makes no such call
    execName, execSaw,
    \* observations
    evSleeps,       \* grace-period waits completed for the current event
    evRestarts,     \* invocations of RestartExec for the current event
    evCbs,          \* invocations of each callback for the current event
    closeCalls,     \* invocations of the watcher's close handle
    attempts,       \* calls of syscall.Exec, in order
    logged,         \* [startup messages, "reload error" messages, "untested GOOS" messages]
    produced,       \* [events, errors] produced by the notification subsystem
    endedBy,        \* the goroutine whose Exec replaced the process or whose panic ended it
    doCalls,        \* calls of Do made so far
    osCalls,        \* queries of os.Executable made so far
    writes,         \* assignments made so far to [binSelf, closeWatcher]
    abandoned       \* watchers of earlier calls of Do that were left open

inputVars == <<goos, argv0, additional>>
globalVars == <<binSelf, closeWatcher>>
doVars == <<doPc, doErr, i, dirs, addIdx>>
watcherVars == <<watcher, watched, events, errorsPending, produced>>
loopVars == <<loopPc, event, k>>
execVars == <<execPc, execName, execSaw>>
obsVars == <<evSleeps, evRestarts, evCbs, closeCalls, attempts, logged>>
histVars == <<doCalls, osCalls, writes, abandoned>>
vars == <<inputVars, proc, globalVars, doVars, watcherVars, loopVars, execVars, obsVars, endedBy,
          histVars>>

Goroutines == {"loop", "ext"}

\* os.Args
osArgs == <<argv0>> \o TrailingArgs

\* the zero fsnotify.Event
NoEvent == [name |-> <<>>, op |-> {}, late |-> FALSE, afterError |-> FALSE]

Zeros(n) == [j \in 1..n |-> 0]

Running == proc = "running"

(***************************************************************************)
(* The Path Resolver.  exeOK tells whether os.Executable succeeds when it  *)
(* is asked; asked tells whether it was.                                   *)
(***************************************************************************)
\* a resolver that asks os.Executable whatever os.Args[0] is
selfAlwaysAsks(exeOK) ==
    IF exeOK THEN [bin |-> OsExecutable, err |-> FALSE, asked |-> TRUE]
    ELSE [bin |-> <<>>, err |-> TRUE, asked |-> TRUE]

\* lines 187-199: self(), the location of the executable
self(exeOK) ==
    IF IsAbs(argv0) THEN [bin |-> argv0, err |-> FALSE, asked |-> FALSE]
    ELSE IF exeOK THEN [bin |-> OsExecutable, err |-> FALSE, asked |-> TRUE]
    ELSE [bin |-> <<>>, err |-> TRUE, asked |-> TRUE]

\* the state in which the program calls Do or Exec for the first time, for a
\* process started under one of the names argv0s
Start(argv0s) ==
    /\ goos \in Platforms
    /\ argv0 \in argv0s
    /\ additional \in AdditionalInputs
    /\ proc = "running"
    /\ binSelf = <<>>
    /\ closeWatcher = "nil"
    /\ doPc = "start" /\ doErr = "none" /\ i = 1 /\ dirs = <<>> /\ addIdx = 1
    /\ watcher = "none" /\ watched = {} /\ events = <<>> /\ errorsPending = 0
    /\ loopPc = "none" /\ event = NoEvent /\ k = 1
    /\ \E standalone \in BOOLEAN :
        execPc = [t \in Goroutines |->
                    IF t = "ext" /\ ~standalone THEN "never" ELSE "idle"]
    /\ execName = [t \in Goroutines |-> <<>>]
    /\ execSaw = [t \in Goroutines |-> [bin |-> <<>>, handle |-> FALSE, closed |-> FALSE]]
    /\ evSleeps = 0 /\ evRestarts = 0
    /\ evCbs = Zeros(Len(additional))
    /\ closeCalls = 0
    /\ attempts = <<>>
    /\ logged = [startup |-> 0, error |-> 0, untested |-> 0]
    /\ produced = [events |-> 0, errors |-> 0]
    /\ endedBy = "none"
    /\ doCalls = 1
    /\ osCalls = 0
    /\ writes = [binSelf |-> 0, closeWatcher |-> 0]
    /\ abandoned = 0

\* the process is started by its absolute path or by a bare name
Init == Start({BinFile, RelBin})

(***************************************************************************)
(* Do, lines 69-163.                                                       *)
(***************************************************************************)
DoReturn(e) ==
    /\ doPc' = "returned"
    /\ doErr' = e

\* lines 70-74: fsnotify.NewWatcher() and closeWatcher = watcher.Close
DoNewWatcher ==
    /\ Running
    /\ doPc = "start"
    /\ \E ok \in BOOLEAN :
        IF ok
        THEN /\ watcher' = "open"
             /\ closeWatcher' = "watcher.Close"
             /\ writes' = [writes EXCEPT !.closeWatcher = @ + 1]
             /\ doPc' = "self"
             /\ UNCHANGED doErr
        ELSE /\ DoReturn("watcher")
             /\ UNCHANGED <<watcher, closeWatcher, writes>>
    /\ UNCHANGED <<inputVars, proc, binSelf, i, dirs, addIdx, watched, events,
                   errorsPending, produced, loopVars, execVars, obsVars, endedBy,
                   doCalls, osCalls, abandoned>>

\* lines 76-84: binSelf, err = self() and dirs[0] = filepath.Dir(binSelf)
DoSelf ==
    /\ Running
    /\ doPc = "self"
    /\ \E exeOK \in BOOLEAN :
        LET r == self(exeOK)
        IN  /\ binSelf' = r.bin
            /\ writes' = [writes EXCEPT !.binSelf = @ + 1]
            /\ osCalls' = IF r.asked THEN osCalls + 1 ELSE osCalls
            /\ IF r.err
               THEN /\ DoReturn("resolve")
                    /\ UNCHANGED <<i, dirs>>
               ELSE /\ dirs' = <<DirOf(r.bin)>>
                    /\ i' = 1
                    /\ doPc' = "validate"
                    /\ UNCHANGED doErr
    /\ UNCHANGED <<inputVars, proc, closeWatcher, addIdx, watcherVars, loopVars,
                   execVars, obsVars, endedBy,
                   doCalls, abandoned>>

\* lines 87-96 without the IsDir test of lines 97-100
ValidateNoDirCheck(path, cwdOK) ==
    LET a == Abs(path, cwdOK)
    IN  IF a.err THEN "abs"
        ELSE IF Stat(a.path) = "missing" THEN "stat"
        ELSE "none"

\* lines 87-100: the error, if any, of one descriptor
Validate(path, cwdOK) ==
    LET a == Abs(path, cwdOK)
    IN  IF a.err THEN "abs"
        ELSE IF Stat(a.path) = "missing" THEN "stat"
        ELSE IF Stat(a.path) # "dir" THEN "notdir"
        ELSE "none"

\* lines 86-104: one iteration of the validation loop
DoValidate ==
    /\ Running
    /\ doPc = "validate"
    /\ i <= Len(additional)
    /\ \E cwdOK \in BOOLEAN :
        LET e == Validate(additional[i].path, cwdOK)
            path == Abs(additional[i].path, cwdOK).path
        IN  IF e # "none"
            THEN /\ DoReturn(e)
                 /\ UNCHANGED <<additional, dirs, i>>
            ELSE /\ additional' = [additional EXCEPT ![i].path = path]
                 /\ dirs' = Append(dirs, path)
                 /\ i' = i + 1
                 /\ UNCHANGED <<doPc, doErr>>
    /\ UNCHANGED <<goos, argv0, proc, globalVars, addIdx, watcherVars,
                   loopVars, execVars, obsVars, endedBy,
                   histVars>>

\* lines 106-144: the goroutine is started once every descriptor is validated
DoSpawn ==
    /\ Running
    /\ doPc = "validate"
    /\ i > Len(additional)
    /\ loopPc' = "select"
    /\ doPc' = "add"
    /\ addIdx' = 1
    /\ UNCHANGED <<inputVars, proc, globalVars, doErr, i, dirs, watcherVars, event, k,
                   execVars, obsVars, endedBy,
                   histVars>>

\* a range loop that stops one directory short
AllAddedButLast(idx, ds) == idx >= Len(ds)

\* lines 146-150: the range loop over dirs has run to its end
AllAdded(idx, ds) == idx > Len(ds)

\* lines 146-150: watcher.Add(d) for the next directory; Add fails on a closed
\* watcher and may fail on an open one
DoAdd ==
    /\ Running
    /\ doPc = "add"
    /\ ~AllAdded(addIdx, dirs)
    /\ \E ok \in (IF watcher = "open" THEN BOOLEAN ELSE {FALSE}) :
        IF ok
        THEN /\ watched' = watched \cup {dirs[addIdx]}
             /\ addIdx' = addIdx + 1
             /\ UNCHANGED <<doPc, doErr>>
        ELSE /\ DoReturn("add")
             /\ UNCHANGED <<watched, addIdx>>
    /\ UNCHANGED <<inputVars, proc, globalVars, i, dirs, watcher, events, errorsPending,
                   produced, loopVars, execVars, obsVars, endedBy,
                   histVars>>

\* line 69: the program calls Do again, with the same arguments, after a call
\* that returned an error before line 106, so that no goroutine was started.
\* The watcher of the earlier call, if it made one, stays open: no line of Do
\* closes it.  Modelled for a program that makes no standalone Exec call.
DoAgain ==
    /\ Running
    /\ doPc = "returned"
    /\ loopPc = "none"
    /\ execPc["ext"] = "never"
    /\ doCalls < MaxDoCalls
    /\ doCalls' = doCalls + 1
    /\ abandoned' = IF watcher = "open" THEN abandoned + 1 ELSE abandoned
    /\ watcher' = "none"
    /\ doPc' = "start"
    /\ doErr' = "none"
    /\ i' = 1
    /\ dirs' = <<>>
    /\ addIdx' = 1
    /\ UNCHANGED <<inputVars, proc, globalVars, watched, events, errorsPending, produced,
                   loopVars, execVars, obsVars, endedBy, osCalls, writes>>

\* a receive from done that does not block
AwaitDoneReturns(senders) == "returned"

\* line 161: <-done, with the number of goroutines that send on or close done
AwaitDone(senders) == IF senders = 0 THEN "blocked" ELSE "returned"

\* goroutines that send on or close the channel made at line 106
DoneSenders == 0

\* lines 152-162: the start-up message, then <-done
DoLog ==
    /\ Running
    /\ doPc = "add"
    /\ AllAdded(addIdx, dirs)
    /\ logged' = [logged EXCEPT !.startup = @ + 1]
    /\ doPc' = AwaitDone(DoneSenders)
    /\ doErr' = IF AwaitDone(DoneSenders) = "returned" THEN "nil" ELSE doErr
    /\ UNCHANGED <<inputVars, proc, globalVars, i, dirs, addIdx, watcherVars, loopVars,
                   execVars, evSleeps, evRestarts, evCbs,
                   closeCalls, attempts, endedBy,
                   histVars>>

(***************************************************************************)
(* The notification subsystem (fsnotify): it reports changes of entries of *)
(* watched directories, named directory/entry, while the watcher is open.  *)
(* Events and Errors are unbuffered channels: one send is pending at most. *)
(***************************************************************************)
FsEvent ==
    /\ Running
    /\ watcher = "open"
    /\ events = <<>>
    /\ produced.events < MaxEvents
    /\ \E d \in watched, op \in Ops : \E f \in EntriesOf(d) :
        events' = Append(events, [name |-> Join(d, f), op |-> op,
                                  late |-> doPc = "returned",
                                  afterError |-> FALSE])
    /\ produced' = [produced EXCEPT !.events = @ + 1]
    /\ UNCHANGED <<inputVars, proc, globalVars, doVars, watcher, watched, errorsPending,
                   loopVars, execVars, obsVars, endedBy,
                   histVars>>

FsError ==
    /\ Running
    /\ watcher = "open"
    /\ errorsPending = 0
    /\ produced.errors < MaxErrors
    /\ errorsPending' = errorsPending + 1
    /\ produced' = [produced EXCEPT !.errors = @ + 1]
    /\ UNCHANGED <<inputVars, proc, globalVars, doVars, watcher, watched, events,
                   loopVars, execVars, obsVars, endedBy,
                   histVars>>

(***************************************************************************)
(* The goroutine of lines 107-144.                                         *)
(***************************************************************************)
\* the switch with the operations of its first two cases exchanged
TriggerSwapped(os, op) ==
    IF os \in BSDFamily THEN "Write" \in op
    ELSE IF os = "linux" THEN "Create" \in op
    ELSE "Create" \in op

\* lines 116-124: does the operation trigger on this platform
Trigger(os, op) ==
    IF os \in BSDFamily THEN "Create" \in op
    ELSE IF os = "linux" THEN "Write" \in op
    ELSE "Create" \in op

\* line 123: the default branch logs
WarnsUntested(os) == os \notin BSDFamily /\ os # "linux"

\* the test of line 130 on the directories of the two paths
IsSelfDir(name, bin) == DirOf(name) = DirOf(bin)

\* line 130: event.Name == binSelf
IsSelf(name, bin) == name = bin

\* a loop that returns after logging an error
AfterErrorExit == "exited"

\* lines 110-111: where the loop goes after logging an error
AfterError == "select"

\* a loop whose grace-period waits also receive from the channels
AtSelectOrAsleep(pc) == pc \in {"select", "sleepSelf", "sleepDir"}

\* lines 108-109: the goroutine receives from the channels only in the select
\* at the head of its for loop
AtSelect(pc) == pc = "select"

\* lines 110-111: case err := <-watcher.Errors
LoopError ==
    /\ Running
    /\ AtSelect(loopPc)
    /\ errorsPending > 0
    /\ errorsPending' = errorsPending - 1
    /\ logged' = [logged EXCEPT !.error = @ + 1]
    /\ loopPc' = AfterError
    /\ UNCHANGED <<inputVars, proc, globalVars, doVars, watcher, watched, events, produced,
                   event, k, execVars, evSleeps, evRestarts, evCbs,
                   closeCalls, attempts, endedBy,
                   histVars>>

\* lines 112-130: case event := <-watcher.Events, up to the test of line 130.
\* A closed watcher delivers no further change event.
LoopEvent ==
    /\ Running
    /\ AtSelect(loopPc)
    /\ watcher = "open"
    /\ events # <<>>
    /\ LET ev == [Head(events) EXCEPT !.afterError = logged.error > 0]
       IN  /\ event' = ev
           /\ logged' = IF WarnsUntested(goos)
                        THEN [logged EXCEPT !.untested = @ + 1] ELSE logged
           /\ loopPc' = IF ~Trigger(goos, ev.op) THEN "select"
                        ELSE IF IsSelf(ev.name, binSelf) THEN "sleepSelf"
                        ELSE "dirs"
    /\ events' = Tail(events)
    /\ k' = 1
    /\ evSleeps' = 0
    /\ evRestarts' = 0
    /\ evCbs' = Zeros(Len(additional))
    /\ UNCHANGED <<inputVars, proc, globalVars, doVars, watcher, watched, errorsPending,
                   produced, execVars, closeCalls, attempts, endedBy,
                   histVars>>

\* line 132 and line 138: time.Sleep(100 * time.Millisecond)
LoopSleep ==
    /\ Running
    /\ loopPc \in {"sleepSelf", "sleepDir"}
    /\ evSleeps' = evSleeps + 1
    /\ loopPc' = IF loopPc = "sleepSelf" THEN "restart" ELSE "cb"
    /\ UNCHANGED <<inputVars, proc, globalVars, doVars, watcherVars, event, k, execVars,
                   evRestarts, evCbs, closeCalls,
                   attempts, logged, endedBy,
                   histVars>>

\* what the package variable RestartExec (line 47) holds when it is called: Exec,
\* assigned by init (line 216), or a function the program assigned that returns
RestartExec == {"Exec", "returns"}

\* line 133: RestartExec()
LoopRestart ==
    /\ Running
    /\ loopPc = "restart"
    /\ evRestarts' = evRestarts + 1
    /\ \E f \in RestartExec :
       IF f = "Exec"
       THEN /\ loopPc' = "inExec"
            /\ execPc' = [execPc EXCEPT !["loop"] = "name"]
       ELSE /\ loopPc' = "dirs"
            /\ UNCHANGED execPc
    /\ UNCHANGED <<inputVars, proc, globalVars, doVars, watcherVars, event, k, execName,
                   execSaw, evSleeps, evCbs, closeCalls, attempts,
                   logged, endedBy,
                   histVars>>

\* lines 136-137: the range loop over additional and its prefix test
LoopDirs ==
    /\ Running
    /\ loopPc = "dirs"
    /\ IF k > Len(additional)
       THEN /\ loopPc' = "select"
            /\ UNCHANGED k
       ELSE IF HasPrefix(event.name, additional[k].path)
       THEN /\ loopPc' = "sleepDir"
            /\ UNCHANGED k
       ELSE /\ k' = k + 1
            /\ UNCHANGED loopPc
    /\ UNCHANGED <<inputVars, proc, globalVars, doVars, watcherVars, event, execVars,
                   obsVars, endedBy,
                   histVars>>

\* line 139: a.cb()
LoopCallback ==
    /\ Running
    /\ loopPc = "cb"
    /\ evCbs' = [evCbs EXCEPT ![k] = @ + 1]
    /\ IF additional[k].cb = "exec"
       THEN /\ loopPc' = "inExec"
            /\ execPc' = [execPc EXCEPT !["loop"] = "name"]
            /\ UNCHANGED k
       ELSE /\ loopPc' = "dirs"
            /\ k' = k + 1
            /\ UNCHANGED execPc
    /\ UNCHANGED <<inputVars, proc, globalVars, doVars, watcherVars, event, execName,
                   execSaw, evSleeps, evRestarts, closeCalls,
                   attempts, logged, endedBy,
                   histVars>>

(***************************************************************************)
(* Exec, lines 166-184, run by goroutine t.                                *)
(***************************************************************************)
\* an Exec that does not look at closeWatcher
HasHandleNever(cw) == FALSE

\* line 176: closeWatcher != nil
HasHandle(cw) == cw # "nil"

\* lines 167-178: execName := binSelf, resolved afresh when it is empty, then the
\* watcher is closed when there is one.  The goroutine "ext" is a caller of Exec
\* outside the watcher's goroutine and may call it at any time; "loop" is at this
\* point after RestartExec or a callback called Exec.  Do writes closeWatcher
\* (line 74) before binSelf (line 76), so every pair of values the two reads of
\* lines 167 and 176 can see is a pair they see in a single step.
ExecClose(t) ==
    /\ Running
    /\ execPc[t] = (IF t = "ext" THEN "idle" ELSE "name")
    /\ \E exeOK \in BOOLEAN :
        LET r == IF binSelf # <<>>
                 THEN [bin |-> binSelf, err |-> FALSE, asked |-> FALSE]
                 ELSE self(exeOK)
        IN  /\ osCalls' = IF r.asked THEN osCalls + 1 ELSE osCalls
            /\ IF r.err
               THEN /\ execPc' = [execPc EXCEPT ![t] = "panicking"]
                    /\ execSaw' = [execSaw EXCEPT ![t].bin = binSelf]
                    /\ UNCHANGED <<execName, watcher, closeCalls>>
               ELSE /\ execName' = [execName EXCEPT ![t] = r.bin]
                    /\ execSaw' = [execSaw EXCEPT ![t] =
                                       [bin |-> binSelf, handle |-> closeWatcher # "nil",
                                        closed |-> HasHandle(closeWatcher)]]
                    /\ IF HasHandle(closeWatcher)
                       THEN /\ watcher' = "closed"
                            /\ closeCalls' = closeCalls + 1
                       ELSE UNCHANGED <<watcher, closeCalls>>
                    /\ execPc' = [execPc EXCEPT ![t] = "syscall"]
    /\ UNCHANGED <<inputVars, proc, globalVars, doVars, watched, events, errorsPending,
                   produced, loopVars, evSleeps,
                   evRestarts, evCbs, attempts, logged, endedBy,
                   doCalls, writes, abandoned>>

\* append([]string{execName}, os.Args...)
ExecArgvAll(name, args) == <<name>> \o args

\* line 180: append([]string{execName}, os.Args[1:]...)
ExecArgv(name, args) == <<name>> \o Tail(args)

\* lines 180-183: syscall.Exec; it replaces the process or fails, and then Exec panics
ExecSyscall(t) ==
    /\ Running
    /\ execPc[t] = "syscall"
    /\ attempts' = Append(attempts,
                          [by |-> t, path |-> execName[t],
                           argv |-> ExecArgv(execName[t], osArgs), env |-> Environ,
                           saw |-> execSaw[t], watcher |-> watcher])
    /\ \E ok \in BOOLEAN :
        IF ok
        THEN /\ proc' = "replaced"
             /\ endedBy' = t
             /\ UNCHANGED execPc
        ELSE /\ execPc' = [execPc EXCEPT ![t] = "panicking"]
             /\ UNCHANGED <<proc, endedBy>>
    /\ UNCHANGED <<inputVars, globalVars, doVars, watcherVars, loopVars, execName, execSaw,
                   evSleeps, evRestarts, evCbs, closeCalls, logged,
                   histVars>>

\* lines 171 and 182: the panic ends the process
ExecPanic(t) ==
    /\ Running
    /\ execPc[t] = "panicking"
    /\ proc' = "panicked"
    /\ endedBy' = t
    /\ UNCHANGED <<inputVars, globalVars, doVars, watcherVars, loopVars, execVars, obsVars,
                   histVars>>

Next ==
    \/ DoNewWatcher
    \/ DoSelf
    \/ DoValidate
    \/ DoSpawn
    \/ DoAdd
    \/ DoLog
    \/ FsEvent
    \/ FsError
    \/ LoopError
    \/ LoopEvent
    \/ LoopSleep
    \/ LoopRestart
    \/ LoopDirs
    \/ LoopCallback
    \/ \E t \in Goroutines : ExecClose(t)
    \/ \E t \in Goroutines : ExecSyscall(t)
    \/ \E t \in Goroutines : ExecPanic(t)

Spec == Init /\ [][Next]_vars

\* a program that starts the watcher and never calls Exec itself
InitWatch == Init /\ execPc["ext"] = "never"

SpecWatch == InitWatch /\ [][Next]_vars

\* a program on Linux, watching at most one additional directory, that also calls
\* Exec itself at some time
InitExec == Init /\ execPc["ext"] = "idle" /\ goos = "linux" /\ Len(additional) <= 1

SpecExec == InitExec /\ [][Next]_vars

\* the Path Resolver on every os.Args[0] of ArgvInputs: Do up to line 79, on
\* Linux with no additional directory
InitSelf ==
    /\ Start(ArgvInputs)
    /\ goos = "linux"
    /\ additional = <<>>
    /\ execPc["ext"] = "never"

NextSelf ==
    \/ DoNewWatcher
    \/ DoSelf

SpecSelf == InitSelf /\ [][NextSelf]_vars

\* a program on Linux, watching at most one additional directory, that never
\* calls Exec itself and calls Do again when Do returned an error
InitRetry == Init /\ execPc["ext"] = "never" /\ goos = "linux" /\ Len(additional) <= 1

NextRetry ==
    \/ Next
    \/ DoAgain

SpecRetry == InitRetry /\ [][NextRetry]_vars

(***************************************************************************)
(* Properties.                                                             *)
(***************************************************************************)
\* the operation kind that triggers on a platform (spec 4.2)
TriggerKind(os) == IF os = "linux" THEN "Write" ELSE "Create"

\* the event's operation kind is the platform's trigger kind
Qualifying(ev) == TriggerKind(goos) \in ev.op

\* a qualifying event for the resolved self-binary path
SelfEvent(ev) == Qualifying(ev) /\ ev.name = binSelf

\* name has dir as a prefix
IsUnder(name, dir) ==
    /\ Len(dir) <= Len(name)
    /\ \A n \in 1..Len(dir) : name[n] = dir[n]

AddIdx == 1..Len(additional)

RECURSIVE SumTo(_, _)
SumTo(f, n) == IF n = 0 THEN 0 ELSE f[n] + SumTo(f, n - 1)

\* callback invocations for the current event
EvCallbacks == SumTo(evCbs, Len(evCbs))

\* the path the Path Resolver produces when it succeeds
ResolverPath == IF IsAbs(argv0) THEN argv0 ELSE OsExecutable

AttemptsBy(t) == {n \in 1..Len(attempts) : attempts[n].by = t}

\* C1: a qualifying event for the self-binary path gets RestartExec invoked
\* exactly once by the time the loop moves past line 133, never more than once,
\* never for another event, and only after the grace-period wait.
C1_RestartOncePerSelfEvent ==
    /\ evRestarts <= 1
    /\ evRestarts = 1 => (SelfEvent(event) /\ evSleeps >= 1)
    /\ (SelfEvent(event) /\ loopPc \notin {"sleepSelf", "restart"}) => evRestarts = 1

C1_Witness ==
    /\ SelfEvent(event)
    /\ evRestarts = 1
    /\ evSleeps = 1
    /\ loopPc = "dirs"

\* C2 as stated: once the loop is done with a qualifying event (it is back at the
\* select, or its own restart or callback has ended the process), the callback
\* of every additional directory whose path is a prefix of the event's path has
\* been invoked.
C2_EveryMatchingCallbackInvoked ==
    (/\ Qualifying(event)
     /\ \/ loopPc = "select"
        \/ ~Running /\ endedBy = "loop")
    => \A j \in AddIdx : IsUnder(event.name, additional[j].path) => evCbs[j] >= 1

\* C2, amended: for a qualifying event the loop goes through the additional
\* directories in order; every directory it has gone past whose path is a prefix
\* of the event's path had its callback invoked exactly once, no other callback
\* is invoked, each invocation follows a grace-period wait of its own, and a loop
\* that returns to the select has gone past them all.  (The directories after a
\* restart or callback that ended the process are not reached.)
C2_MatchingCallbacksWhileRunning ==
    Qualifying(event) =>
        /\ \A j \in AddIdx :
            /\ evCbs[j] <= 1
            /\ evCbs[j] = 1 => IsUnder(event.name, additional[j].path)
            /\ (IsUnder(event.name, additional[j].path) /\ k > j) => evCbs[j] = 1
        /\ evSleeps >= evRestarts + EvCallbacks
        /\ loopPc = "select" => k > Len(additional)

C2_Witness ==
    /\ Qualifying(event)
    /\ Len(additional) = 2
    /\ evCbs = <<1, 1>>
    /\ evSleeps = 2
    /\ loopPc = "select"

\* C3: an event whose operation kind is not the platform's trigger kind causes
\* no grace-period wait, no restart and no callback, whatever its path: the loop
\* is back at the select with every count of the event at zero.
C3_NonTriggerNoAction ==
    ~Qualifying(event) =>
        /\ evRestarts = 0
        /\ evSleeps = 0
        /\ \A j \in AddIdx : evCbs[j] = 0
        /\ loopPc \in {"none", "select"}

C3_Witness ==
    /\ ~Qualifying(event)
    /\ event.op # {}
    /\ event.name = binSelf
    /\ Len(additional) >= 1
    /\ IsUnder(event.name, additional[1].path)
    /\ produced.events = MaxEvents
    /\ loopPc = "select"

\* a descriptor whose path does not exist or is not a directory
BadDescriptor(d) ==
    LET p == IF IsAbs(d.path) THEN d.path ELSE Join(Cwd, d.path)
    IN  p \notin ExistingDirs

\* C4: with a descriptor that names a missing path or a non-directory, Do gets
\* no further than the validation loop and returns only with an error; nothing
\* is added to the watcher and the goroutine of the event loop is not started.
C4_BadDescriptorNothingArmed ==
    (\E j \in AddIdx : BadDescriptor(additional[j])) =>
        /\ watched = {}
        /\ loopPc = "none"
        /\ doPc \in {"start", "self", "validate", "returned"}
        /\ doPc = "returned" => doErr \in {"watcher", "resolve", "abs", "stat", "notdir"}
        /\ doPc = "validate" => \A j \in 1..(i - 1) : ~BadDescriptor(additional[j])

C4_Witness ==
    /\ doPc = "returned"
    /\ doErr \in {"stat", "notdir"}
    /\ i = 2
    /\ watched = {}
    /\ loopPc = "none"

\* C5 as stated: when Do returns because watcher.Add failed, no event loop has
\* been started.
C5_AddFailsNoLoop ==
    (doPc = "returned" /\ doErr = "add") => loopPc = "none"

\* C6 as stated: an event that arrives after Do returned an initialization error
\* causes neither the restart action nor a callback.
C6_FailClosed ==
    event.late => (evRestarts = 0 /\ \A j \in AddIdx : evCbs[j] = 0)

\* C7: an Exec that finds closeWatcher set has invoked it, and the watcher is
\* closed, when it calls syscall.Exec; a goroutine calls syscall.Exec once at
\* most, and after a failed call it is panicking with the watcher closed.
C7_CloseBeforeExec ==
    /\ \A n \in 1..Len(attempts) :
        /\ attempts[n].saw.handle =>
              (attempts[n].saw.closed /\ attempts[n].watcher = "closed")
        /\ Running => execPc[attempts[n].by] = "panicking"
    /\ \A t \in Goroutines :
        /\ Cardinality(AttemptsBy(t)) <= 1
        /\ (execPc[t] \in {"syscall", "panicking"} /\ execSaw[t].handle) =>
              watcher = "closed"

C7_Witness ==
    /\ proc = "panicked"
    /\ Len(attempts) = 1
    /\ attempts[1].saw.handle
    /\ attempts[1].watcher = "closed"
    /\ attempts[1].by = endedBy

\* C8: syscall.Exec is called with program path P, arguments [P] followed by
\* os.Args[1:], and os.Environ(), where P is binSelf when Exec found it set and
\* the Path Resolver's path otherwise; an Exec whose resolution failed panics
\* without calling syscall.Exec.
C8_ExecArguments ==
    /\ \A n \in 1..Len(attempts) :
        LET a == attempts[n]
            P == IF a.saw.bin # <<>> THEN a.saw.bin ELSE ResolverPath
        IN  /\ a.path = P
            /\ P # <<>>
            /\ a.argv = <<P>> \o TrailingArgs
            /\ a.env = Environ
    /\ \A t \in Goroutines :
        (execPc[t] = "panicking" /\ AttemptsBy(t) = {}) =>
            (execSaw[t].bin = <<>> /\ ~IsAbs(argv0))

C8_Witness ==
    /\ Len(attempts) = 1
    /\ attempts[1].by = "ext"
    /\ attempts[1].saw.bin = <<>>
    /\ ~IsAbs(argv0)
    /\ attempts[1].argv = <<BinFile, "-v">>

\* C9: every error taken from watcher.Errors is logged, the loop is never left,
\* Do returns no error because of it, and a qualifying event received after an
\* error still gets its restart and its callbacks.
C9_ErrorsLoggedLoopContinues ==
    /\ logged.error = produced.errors - errorsPending
    /\ loopPc # "exited"
    /\ (logged.error > 0 /\ doPc = "returned") => doErr = "add"
    /\ event.afterError =>
        /\ (SelfEvent(event) /\ loopPc \notin {"sleepSelf", "restart"}) => evRestarts = 1
        /\ \A j \in AddIdx :
            (Qualifying(event) /\ IsUnder(event.name, additional[j].path) /\ k > j)
                => evCbs[j] = 1

C9_Witness ==
    /\ logged.error = 1
    /\ event.afterError
    /\ SelfEvent(event)
    /\ evRestarts = 1
    /\ Len(additional) >= 1
    /\ evCbs[1] = 1

\* every watch target has been added to the watcher
AllArmed == dirs # <<>> /\ addIdx > Len(dirs)

\* C10: Do returns only with an initialization error, and once every watch
\* target is armed it does not return: it logs and then stays blocked.
C10_DoReturnsOnlyInitErrors ==
    /\ doPc = "returned" =>
          doErr \in {"watcher", "resolve", "abs", "stat", "notdir", "add"}
    /\ AllArmed => doPc \in {"add", "blocked"}
    /\ logged.startup > 0 => (doPc = "blocked" /\ logged.startup = 1)

C10_Witness ==
    /\ doPc = "blocked"
    /\ AllArmed
    /\ produced.events = MaxEvents
    /\ events = <<>>
    /\ loopPc = "select"
    /\ evCbs = <<1>>

\* C11 as stated: on a platform that is neither of the BSD family nor Linux the
\* create operation is the trigger, and over all the events one loop receives
\* the "untested GOOS" warning is logged once at most.
C11_UntestedWarnedOnce ==
    (goos \notin BSDFamily /\ goos # "linux") =>
        /\ \A op \in Ops : Trigger(goos, op) <=> "Create" \in op
        /\ logged.untested <= 1

\* Do has passed line 76, with or without an error of self()
PastSelf == doPc = "validate" \/ (doPc = "returned" /\ doErr = "resolve")

\* C12: for an os.Args[0] that is an absolute path, self() returns that very
\* path with no error and os.Executable is not queried; for any other
\* os.Args[0] it queries os.Executable once and returns the path the system
\* reports, or an error with the empty path when the query fails.
C12_PathResolver ==
    /\ ~PastSelf => osCalls = 0
    /\ PastSelf =>
        IF argv0[1] = "/"
        THEN /\ binSelf = argv0
             /\ doErr = "none"
             /\ osCalls = 0
        ELSE /\ osCalls = 1
             /\ \/ doErr = "none" /\ binSelf = OsExecutable
                \/ doErr = "resolve" /\ binSelf = <<>>

C12_Witness ==
    /\ PastSelf
    /\ argv0 = <<"/", "s", "/">>
    /\ binSelf = argv0
    /\ osCalls = 0

\* C13 as stated: dispatch is exclusive for each event: a qualifying event for
\* the self-binary path gets the restart and no callback, and a qualifying
\* event for any other path gets callbacks only, never the loop's restart.
C13_ExclusiveDispatch ==
    Qualifying(event) =>
        IF event.name = binSelf
        THEN \A j \in AddIdx : evCbs[j] = 0
        ELSE evRestarts = 0

\* C14: the loop takes one event at a time, the oldest undelivered one, and
\* only at its select: whenever an event is taken the loop is in no grace-period
\* wait, restart, callback or Exec, and it has gone past every additional
\* directory for the event before, so the actions of that event have ended.
C14_OneEventAtATime ==
    [][Len(events') < Len(events) =>
          /\ loopPc = "select"
          /\ execPc["loop"] = "idle"
          /\ Qualifying(event) => k > Len(additional)
          /\ event'.name = Head(events).name
          /\ event'.op = Head(events).op
          /\ events' = Tail(events)
          /\ evSleeps' = 0 /\ evRestarts' = 0 /\ EvCallbacks' = 0]_vars

C14_Witness ==
    /\ produced.events = MaxEvents
    /\ events = <<>>
    /\ Qualifying(event)
    /\ evCbs = <<1, 0>>
    /\ loopPc = "sleepDir"

\* C15 as stated: whatever the interleaving of the loop's restart with
\* standalone calls of Exec, the watcher's close handle is invoked once at most
\* and syscall.Exec is attempted once at most in the life of the process.
C15_SingleReplacement ==
    /\ closeCalls <= 1
    /\ Len(attempts) <= 1

\* C16 as stated: over any sequence of calls of Do and Exec, binSelf and
\* closeWatcher are each written once at most, and a value once set is kept.
C16_SetOnce ==
    [][/\ writes'.binSelf <= 1
       /\ writes'.closeWatcher <= 1
       /\ binSelf # <<>> => binSelf' = binSelf
       /\ closeWatcher # "nil" => closeWatcher' = closeWatcher]_vars

\* C17: Do logs its start-up message once, when the directory of the binary and
\* every additional directory are in the watcher and no error was found; a Do
\* that returns an error has logged none, and a Do that started up has logged
\* exactly one.
C17_StartupMessageOnce ==
    /\ logged.startup <= 1
    /\ logged.startup = 1 =>
        /\ doErr = "none"
        /\ binSelf # <<>>
        /\ DirOf(binSelf) \in watched
        /\ \A j \in AddIdx : additional[j].path \in watched
    /\ doPc = "returned" => logged.startup = 0
    /\ doPc = "blocked" => logged.startup = 1

C17_Witness ==
    /\ logged.startup = 1
    /\ doPc = "blocked"
    /\ Len(additional) = 2
    /\ watched = {DirB, DirBB}

\* C18 as stated: the callback of an additional directory is invoked only for
\* an event on an entry located in that directory, never for an event in another
\* watched directory such as a sibling whose name begins with the same
\* characters.
C18_CallbackOnlyForOwnDirectory ==
    \A j \in AddIdx :
        evCbs[j] >= 1 => DirOf(event.name) = additional[j].path

\* C19 as stated: when Do has returned an error of path resolution, directory
\* validation or watch registration, the watcher it opened is closed and
\* closeWatcher does not refer to an open watcher.
C19_NoResidue ==
    (doPc = "returned" /\ doErr \in {"resolve", "abs", "stat", "notdir", "add"}) =>
        /\ watcher = "closed"
        /\ ~(closeWatcher # "nil" /\ watcher = "open")

====
